---- MODULE Spec2Model ----
(***************************************************************************)
(* Verification model of ant-3d: the sparse pheromone Environment, the     *)
(* neighbourhood functions and the Ant decision cycle of src/ant.py, with  *)
(* the drivers of src/main.py and src/test_ant.py.                         *)
(*                                                                         *)
(* Coordinates are tuples <<x, y, z>> of integers, environment keys are    *)
(* tuples <<x, y, z, phero>>. Pheromone values are fixed-point numbers:     *)
(* the integer v stands for v / Unit, so that Unit stands for 1 and the    *)
(* decay of evaporate is computed exactly.                                 *)
(***************************************************************************)
EXTENDS Integers, Sequences, FiniteSets, TLC

VARIABLES
    cells,        \* Environment._cells : materialised coordinate -> dict phero -> value
    written,      \* history: <<x, y, z, phero>> -> value of the last set to that key
    position,     \* Agent._position, per ant of the driver's list
    action_range, \* Agent._range, per ant
    pheromones,   \* Ant._pheromones, per ant (a list of names)
    actions,      \* Ant._actions, per ant (the action log)
    turn,         \* index of the ant the driver's loop calls next
    remaining,    \* iterations the driver's outer loop has left
    raised,       \* an exception escaped the operation: the run is over
    last          \* what the most recent operation was and what it returned

vars == <<cells, written, position, action_range, pheromones, actions,
          turn, remaining, raised, last>>

----------------------------------------------------------------------------
(* Bounds of the model.                                                    *)

\* largest pheromone value a driver stores with a set
MaxValue == 1
\* acts a run makes: a test's loop on its Ant (10 and 25 in test_ant.py), and
\* the acts of main.py's loop that are followed
MaxActs == 4
\* largest score of a mapping handed to the selection
MaxScore == 2
\* height of the column main.py seeds at x = 1, z = 0 (25 in main.py)
SeedHeight == 1
\* acts of the Ant in the runs that mix acts and evaporate calls
MaxDecayActs == 2
\* largest radius adjacent_positions is called with (1 and 2 in test_ant.py)
MaxRange == 2
\* default evaporations a value written as 1 goes through exactly
MaxEvaps == 2

\* the integer that stands for the pheromone value 1: 1 / 20 of it is the
\* default decay, MaxEvaps times over
Unit == 20 ^ MaxEvaps

----------------------------------------------------------------------------
(* Python values.                                                          *)

\* the result None
None == [absent |-> TRUE]
\* a result that is a value (a number, or a dict for the whole-cell read)
Present(v) == [absent |-> FALSE, value |-> v]
\* an exception leaving the call
Raise(e) == [absent |-> FALSE, raise |-> e]
\* the empty dict a defaultdict(dict) creates for a missing key
EmptyDict == [s \in {} |-> 0]

SeqToSet(s) == {s[i] : i \in DOMAIN s}
Max(S) == CHOOSE m \in S : \A n \in S : n <= m

----------------------------------------------------------------------------
(* Environment (src/ant.py 6-52).                                          *)

\* self._cells[x][y][z] on the nested defaultdict: a missing cell is created
\* empty by the lookup itself
Materialize(cs, c) ==
    IF c \in DOMAIN cs THEN cs
    ELSE [d \in DOMAIN cs \cup {c} |-> IF d = c THEN EmptyDict ELSE cs[d]]

\* the dict self._cells[x][y][z] evaluates to
Lookup(cs, c) == IF c \in DOMAIN cs THEN cs[c] ELSE EmptyDict

\* the same lookup for every coordinate of a set
MaterializeAll(cs, S) ==
    [d \in DOMAIN cs \cup S |-> IF d \in DOMAIN cs THEN cs[d] ELSE EmptyDict]

\* a set that replaces the whole cell by the one pheromone
setitem_cells_dropping(cs, key, value) ==
    IF Len(key) = 4
    THEN LET c == SubSeq(key, 1, 3)
         IN [d \in DOMAIN cs \cup {c} |->
               IF d = c THEN [s \in {key[4]} |-> value] ELSE cs[d]]
    ELSE cs

\* Environment.__setitem__: the cells after env[key] = value
setitem_cells(cs, key, value) ==
    IF Len(key) = 4
    THEN LET c  == SubSeq(key, 1, 3)
             m  == Materialize(cs, c)
             old == m[c]
         IN [m EXCEPT ![c] = [s \in DOMAIN old \cup {key[4]} |->
                                 IF s = key[4] THEN value ELSE old[s]]]
    ELSE cs

\* Environment.__setitem__: what the statement raises, None when it completes
setitem_result(cs, key, value) ==
    IF Len(key) = 4 THEN None ELSE Raise("TypeError")

\* a read without the "or None" of the whole-cell form
getitem_result_keeping_empty(cs, key) ==
    IF Len(key) = 4
    THEN LET c == <<key[1], key[2], key[3]>>
             d == Lookup(cs, c)
         IN IF key[4] \in DOMAIN d THEN Present(d[key[4]]) ELSE None
    ELSE IF Len(key) = 3
    THEN Present(Lookup(cs, key))
    ELSE Raise("TypeError")

\* a read that answers None for a key of the wrong arity
getitem_result_none_on_bad_key(cs, key) ==
    IF Len(key) = 4
    THEN LET c == <<key[1], key[2], key[3]>>
             d == Lookup(cs, c)
         IN IF key[4] \in DOMAIN d THEN Present(d[key[4]]) ELSE None
    ELSE IF Len(key) = 3
    THEN LET d == Lookup(cs, key)
         IN IF DOMAIN d = {} THEN None ELSE Present(d)
    ELSE None

\* Environment.__getitem__: the value env[key] evaluates to
getitem_result(cs, key) ==
    IF Len(key) = 4
    THEN LET c == <<key[1], key[2], key[3]>>
             d == Lookup(cs, c)
         IN IF key[4] \in DOMAIN d THEN Present(d[key[4]]) ELSE None
    ELSE IF Len(key) = 3
    THEN LET d == Lookup(cs, key)
         IN IF DOMAIN d = {} THEN None ELSE Present(d)
    ELSE Raise("TypeError")

\* Environment.__getitem__: the cells after evaluating env[key]
getitem_cells(cs, key) ==
    IF Len(key) = 4 THEN Materialize(cs, SubSeq(key, 1, 3))
    ELSE IF Len(key) = 3 THEN Materialize(cs, key)
    ELSE cs

\* Environment.evaporate on one stored value: max(floor, v - v * value)
evaporate_value(v, value, floor) == Max({floor, v - (v * value) \div Unit})

\* Environment.evaporate: the cells after env.evaporate(value, floor)
evaporate_cells(cs, value, floor) ==
    [c \in DOMAIN cs |->
       [s \in DOMAIN cs[c] |-> evaporate_value(cs[c][s], value, floor)]]

\* the decay is a fixed-point number the stored values can be multiplied by exactly
ExactDecay(cs, value) ==
    \A c \in DOMAIN cs : \A s \in DOMAIN cs[c] : (cs[c][s] * value) % Unit = 0

\* evaporate's defaults: value = 0.05 (the retention ratio 0.95), floor = 0
DefaultDecay == Unit \div 20
DefaultFloor == 0

\* one row of the export: the three coordinates as comma-separated text
Row(c) == ToString(c[1]) \o "," \o ToString(c[2]) \o "," \o ToString(c[3])

\* the coordinates env.export(path, pheromone) writes a row for: the occupied
\* ones, or with a filter those that hold the pheromone
export_coords(cs, pheromone) ==
    {c \in DOMAIN cs :
       IF pheromone = None THEN DOMAIN cs[c] # {} ELSE pheromone.value \in DOMAIN cs[c]}

\* the rows of a set of coordinates, one each, in an order of the implementation
RECURSIVE RowsOf(_)
RowsOf(S) ==
    IF S = {} THEN <<>>
    ELSE LET c == CHOOSE d \in S : TRUE IN <<Row(c)>> \o RowsOf(S \ {c})

\* Environment.export: the lines of the file it writes
export_lines(cs, pheromone) == RowsOf(export_coords(cs, pheromone))

\* the truth value of env[x, y, z] in a condition
Occupied(cs, c) == getitem_result(cs, c) # None

\* env[x, y, z, phero] or 0
ValueOrZero(cs, c, phero) ==
    LET r == getitem_result(cs, c \o <<phero>>)
    IN IF r = None THEN 0 ELSE r.value

\* every (key, value) the environment stores
Stored(cs) ==
    UNION {{<<c \o <<s>>, cs[c][s]>> : s \in DOMAIN cs[c]} : c \in DOMAIN cs}

----------------------------------------------------------------------------
(* Neighbourhoods and attractiveness (src/ant.py 55-106).                  *)

\* a generator whose ranges reach one unit further
adjacent_positions_one_wider(pos, increment) ==
    LET n == 2 * increment + 3
        cube == [k \in 1..(n * n * n) |->
                   << pos[1] - increment - 1 + ((k - 1) \div (n * n)),
                      pos[2] - increment - 1 + (((k - 1) \div n) % n),
                      pos[3] - increment - 1 + ((k - 1) % n) >>]
    IN SelectSeq(cube, LAMBDA p : p # pos /\ p[2] >= 0)

\* a generator without the test against the ground
adjacent_positions_below_ground(pos, increment) ==
    LET n == 2 * increment + 1
        cube == [k \in 1..(n * n * n) |->
                   << pos[1] - increment + ((k - 1) \div (n * n)),
                      pos[2] - increment + (((k - 1) \div n) % n),
                      pos[3] - increment + ((k - 1) % n) >>]
    IN SelectSeq(cube, LAMBDA p : p # pos)

\* adjacent_positions: the positions the generator yields, in its order
adjacent_positions(pos, increment) ==
    LET n == 2 * increment + 1
        cube == [k \in 1..(n * n * n) |->
                   << pos[1] - increment + ((k - 1) \div (n * n)),
                      pos[2] - increment + (((k - 1) \div n) % n),
                      pos[3] - increment + ((k - 1) % n) >>]
    IN SelectSeq(cube, LAMBDA p : p # pos /\ p[2] >= 0)

\* the six lambdas of the module-level list, as the offsets they add
transformations ==
    << <<0, 1, 0>>, <<0, -1, 0>>, <<1, 0, 0>>, <<-1, 0, 0>>, <<0, 0, 1>>, <<0, 0, -1>> >>

\* neighbours whose first transformation also steps down
direct_neighbors_with_diagonal(pos) ==
    [i \in DOMAIN transformations |->
       IF i = 3
       THEN << pos[1] + 1, pos[2] - 1, pos[3] >>
       ELSE << pos[1] + transformations[i][1],
               pos[2] + transformations[i][2],
               pos[3] + transformations[i][3] >>]

\* neighbours that leave out what lies below the ground
direct_neighbors_above_ground(pos) ==
    SelectSeq([i \in DOMAIN transformations |->
                 << pos[1] + transformations[i][1],
                    pos[2] + transformations[i][2],
                    pos[3] + transformations[i][3] >>],
              LAMBDA p : p[2] >= 0)

\* direct_neighbors: the list of the six transformed positions
direct_neighbors(pos) ==
    [i \in DOMAIN transformations |->
       << pos[1] + transformations[i][1],
          pos[2] + transformations[i][2],
          pos[3] + transformations[i][3] >>]

RECURSIVE SumSeq(_)
SumSeq(s) == IF s = <<>> THEN 0 ELSE Head(s) + SumSeq(Tail(s))

\* an attractiveness that also counts the position itself
pheromone_attractiveness_with_self(pos, cs, pheros) ==
    LET neighbors == <<pos>> \o direct_neighbors(pos)
    IN [phero \in SeqToSet(pheros) |->
          SumSeq([i \in DOMAIN neighbors |-> ValueOrZero(cs, neighbors[i], phero)])]

\* pheromone_attractiveness: dict phero -> sum over the direct neighbours
pheromone_attractiveness(pos, cs, pheros) ==
    LET neighbors == direct_neighbors(pos)
    IN [phero \in SeqToSet(pheros) |->
          SumSeq([i \in DOMAIN neighbors |-> ValueOrZero(cs, neighbors[i], phero)])]

----------------------------------------------------------------------------
(* Ant (src/ant.py 139-220).                                               *)

\* Ant.__init__: pheromones or ["move", "build"]
AntPheromones(given) == IF given = <<>> THEN <<"move", "build">> ELSE given

\* an iteration that does not skip an occupied position
FilterYields_ignoring_occupancy(p, cs, self_position) ==
    IF p = self_position THEN <<>>
    ELSE LET attached == SelectSeq(direct_neighbors(p), LAMBDA n : Occupied(cs, n))
         IN (IF p[2] = 0 THEN <<p>> ELSE <<>>) \o [i \in DOMAIN attached |-> p]

\* what one iteration of the filter's loop yields for `p`
FilterYields(p, cs, self_position) ==
    IF p = self_position \/ Occupied(cs, p) THEN <<>>
    ELSE LET attached == SelectSeq(direct_neighbors(p), LAMBDA n : Occupied(cs, n))
         IN (IF p[2] = 0 THEN <<p>> ELSE <<>>) \o [i \in DOMAIN attached |-> p]

\* the loop of the filter over positions[lo..hi], halved to keep the evaluation shallow
RECURSIVE FilterLoop(_, _, _, _, _)
FilterLoop(positions, lo, hi, cs, self_position) ==
    IF lo > hi THEN <<>>
    ELSE IF lo = hi THEN FilterYields(positions[lo], cs, self_position)
    ELSE LET mid == (lo + hi) \div 2
         IN FilterLoop(positions, lo, mid, cs, self_position)
            \o FilterLoop(positions, mid + 1, hi, cs, self_position)

\* Ant._filter_adjacent_positions: the positions the generator yields, in order
filter_adjacent_positions(positions, cs, self_position) ==
    FilterLoop(positions, 1, Len(positions), cs, self_position)

\* the coordinates the filter looks up in the environment
FilterReads(positions, cs, self_position) ==
    LET looked == {p \in SeqToSet(positions) : p # self_position}
    IN looked \cup UNION {SeqToSet(direct_neighbors(p)) :
                             p \in {q \in looked : ~Occupied(cs, q)}}

\* positions_pheromone of _selection_action
PositionsPheromone(possible_positions, cs, pheros) ==
    [pos \in SeqToSet(possible_positions) |-> pheromone_attractiveness(pos, cs, pheros)]

\* a selection whose second choice takes any pheromone of the chosen position
get_most_attractive_position_any_pheromone(positions_pheromone) ==
    LET PosMax(p) == Max({positions_pheromone[p][k] : k \in DOMAIN positions_pheromone[p]})
        max_phero_value == Max({PosMax(p) : p \in DOMAIN positions_pheromone})
        tied == {p \in DOMAIN positions_pheromone : PosMax(p) = max_phero_value}
    IN UNION {{<<p, k, max_phero_value>> : k \in DOMAIN positions_pheromone[p]} : p \in tied}

\* Ant._get_most_attractive_position: every triple the two random choices can return
get_most_attractive_position(positions_pheromone) ==
    LET PosMax(p) == Max({positions_pheromone[p][k] : k \in DOMAIN positions_pheromone[p]})
        max_phero_value == Max({PosMax(p) : p \in DOMAIN positions_pheromone})
        tied == {p \in DOMAIN positions_pheromone : PosMax(p) = max_phero_value}
    IN UNION {{<<p, k, max_phero_value>> :
                 k \in {j \in DOMAIN positions_pheromone[p] :
                          positions_pheromone[p][j] = max_phero_value}} : p \in tied}

\* a deposit of the first pheromone alone
Deposit_first_only(cs, c, pheros) ==
    IF pheros = <<>> THEN cs ELSE setitem_cells(cs, c \o <<Head(pheros)>>, Unit)

\* for phero in self._pheromones: environment[x, y, z, phero] = 1
RECURSIVE Deposit(_, _, _)
Deposit(cs, c, pheros) ==
    IF pheros = <<>> THEN cs
    ELSE Deposit(setitem_cells(cs, c \o <<Head(pheros)>>, Unit), c, Tail(pheros))

\* random.randint(a, b): the integers it can return; none when it raises ValueError
randint(a, b) == a..b

----------------------------------------------------------------------------
(* History kept for the properties.                                        *)

NoLast ==
    [op |-> "init", ant |-> 0, key |-> <<>>, value |-> 0, result |-> None,
     given |-> <<>>, possible |-> {}, choice |-> <<>>]

\* the history after a set of `key` to `value`
Wrote(w, key, value) ==
    [k \in DOMAIN w \cup {key} |-> IF k = key THEN value ELSE w[k]]

RECURSIVE WroteAll(_, _, _)
WroteAll(w, c, pheros) ==
    IF pheros = <<>> THEN w
    ELSE WroteAll(Wrote(w, c \o <<Head(pheros)>>, Unit), c, Tail(pheros))

----------------------------------------------------------------------------
(* Operations.                                                             *)

UnchangedAnts == UNCHANGED <<position, action_range, pheromones, actions, turn, remaining>>

\* env[key] = value, called by a driver
Set(key, value) ==
    /\ ~raised
    /\ cells' = setitem_cells(cells, key, value)
    /\ written' = IF setitem_result(cells, key, value) = None
                  THEN Wrote(written, key, value) ELSE written
    /\ last' = [NoLast EXCEPT !.op = "set", !.key = key, !.value = value,
                              !.result = setitem_result(cells, key, value)]
    /\ UNCHANGED raised
    /\ UnchangedAnts

\* env[key], called by a driver
Get(key) ==
    /\ ~raised
    /\ cells' = getitem_cells(cells, key)
    /\ last' = [NoLast EXCEPT !.op = "get", !.key = key,
                              !.result = getitem_result(cells, key)]
    /\ UNCHANGED <<written, raised>>
    /\ UnchangedAnts

\* env.evaporate(value, floor): what the call does to the environment
EvaporateEnv(value, floor) ==
    /\ ~raised
    /\ ExactDecay(cells, value)
    /\ cells' = evaporate_cells(cells, value, floor)
    /\ last' = [NoLast EXCEPT !.op = "evaporate", !.value = value]
    /\ UNCHANGED <<written, raised>>

\* env.evaporate(value, floor), called by a test
Evaporate(value, floor) == EvaporateEnv(value, floor) /\ UnchangedAnts

\* env.export(path, pheromone), called by a driver; the environment is only read
Export(pheromone) ==
    /\ ~raised
    /\ last' = [NoLast EXCEPT !.op = "export", !.given = pheromone,
                              !.result = Present(export_lines(cells, pheromone))]
    /\ UNCHANGED <<cells, written, raised>>
    /\ UnchangedAnts

\* the driver's loop goes on to the next ant, or to the next iteration
NextTurn(a) ==
    IF a = Len(position)
    THEN turn' = 1 /\ remaining' = remaining - 1
    ELSE turn' = a + 1 /\ UNCHANGED remaining

\* a move taken only for a nonzero score
Moves_only_if_nonzero(highest_pheromone, phero_attractiveness) ==
    highest_pheromone = "move" /\ phero_attractiveness # 0

\* a move taken for every winner but "build"
Moves_unless_build(highest_pheromone, phero_attractiveness) == highest_pheromone # "build"

\* the ant moves: self._position = most_attractive_position, and the log entry
Moves(highest_pheromone, phero_attractiveness) == highest_pheromone = "move"

\* a build without the test of the score
Builds_whatever_the_score(highest_pheromone, phero_attractiveness) ==
    highest_pheromone = "build"

\* the ant builds: the deposit and the log entry
Builds(highest_pheromone, phero_attractiveness) ==
    highest_pheromone = "build" /\ phero_attractiveness # 0

\* Agent.act of ant `a`, with Ant._selection_action; `next` is the step the
\* driver's loop takes when the act returns
ActThen(a, next) ==
    /\ ~raised
    /\ remaining > 0
    /\ turn = a
    /\ \E positions \in {adjacent_positions(position[a], action_range[a])} :
       \E possible_positions \in {filter_adjacent_positions(positions, cells, position[a])} :
       \E positions_pheromone \in
              {PositionsPheromone(possible_positions, cells, pheromones[a])} :
       \E cs \in {MaterializeAll(cells,
                     FilterReads(positions, cells, position[a])
                     \cup UNION {SeqToSet(direct_neighbors(p)) :
                                   p \in DOMAIN positions_pheromone})} :
       \E did \in {[NoLast EXCEPT !.ant = a, !.possible = DOMAIN positions_pheromone]} :
          IF DOMAIN positions_pheromone = {}
          THEN IF randint(0, position[a][1]) = {} \/ randint(0, position[a][3]) = {}
               THEN /\ raised' = TRUE
                    /\ cells' = cs
                    /\ last' = [did EXCEPT !.op = "error", !.result = Raise("ValueError")]
                    /\ UNCHANGED <<written, position, actions, turn, remaining>>
               ELSE \E nx \in randint(0, position[a][1]), nz \in randint(0, position[a][3]) :
                    /\ position' = [position EXCEPT ![a] = <<nx, 0, nz>>]
                    /\ cells' = cs
                    /\ last' = [did EXCEPT !.op = "fallback"]
                    /\ next
                    /\ UNCHANGED <<written, actions, raised>>
          ELSE \E won \in get_most_attractive_position(positions_pheromone) :
               LET most_attractive_position == won[1]
                   highest_pheromone == won[2]
                   phero_attractiveness == won[3]
               IN IF Moves(highest_pheromone, phero_attractiveness)
                  THEN /\ position' = [position EXCEPT ![a] = most_attractive_position]
                       /\ actions' = [actions EXCEPT ![a] = Append(@, "move")]
                       /\ cells' = cs
                       /\ last' = [did EXCEPT !.op = "move", !.choice = won]
                       /\ next
                       /\ UNCHANGED <<written, raised>>
                  ELSE IF Builds(highest_pheromone, phero_attractiveness)
                  THEN /\ actions' = [actions EXCEPT ![a] = Append(@, "build")]
                       /\ cells' = Deposit(cs, most_attractive_position, pheromones[a])
                       /\ written' = WroteAll(written, most_attractive_position, pheromones[a])
                       /\ last' = [did EXCEPT !.op = "build", !.choice = won]
                       /\ next
                       /\ UNCHANGED <<position, raised>>
                  ELSE /\ cells' = cs
                       /\ last' = [did EXCEPT !.op = "nothing", !.choice = won]
                       /\ next
                       /\ UNCHANGED <<written, position, actions, raised>>
    /\ UNCHANGED <<action_range, pheromones>>

\* ant.act(env) in the loop of a test
Act(a) == ActThen(a, NextTurn(a))

\* pheromone_attractiveness(pos, env, pheros), called once on a drawn environment
Score(pos, pheros) ==
    /\ ~raised
    /\ last.op = "init"
    /\ cells' = IF pheros = <<>> THEN cells
                ELSE MaterializeAll(cells, SeqToSet(direct_neighbors(pos)))
    /\ last' = [NoLast EXCEPT !.op = "score", !.key = pos, !.given = pheros,
                              !.result = Present(pheromone_attractiveness(pos, cells, pheros))]
    /\ UNCHANGED <<written, raised>>
    /\ UnchangedAnts

\* list(adjacent_positions(pos, increment)), called once
Adjacent(pos, increment) ==
    /\ ~raised
    /\ last.op = "init"
    /\ last' = [NoLast EXCEPT !.op = "adjacent", !.key = pos, !.value = increment,
                              !.result = Present(adjacent_positions(pos, increment))]
    /\ UNCHANGED <<cells, written, raised>>
    /\ UnchangedAnts

\* direct_neighbors(pos), called once
Neighbors(pos) ==
    /\ ~raised
    /\ last.op = "init"
    /\ last' = [NoLast EXCEPT !.op = "neighbors", !.key = pos,
                              !.result = Present(direct_neighbors(pos))]
    /\ UNCHANGED <<cells, written, raised>>
    /\ UnchangedAnts

\* ant._get_most_attractive_position(given), called by a test
Select(given) ==
    /\ ~raised
    /\ last.op = "init"
    /\ last.given = given
    /\ \E won \in get_most_attractive_position(given) :
         last' = [last EXCEPT !.op = "select", !.choice = won]
    /\ UNCHANGED <<cells, written, raised>>
    /\ UnchangedAnts

----------------------------------------------------------------------------
(* Drivers.                                                                *)

SignalNames == {"move", "build"}
Values == 0..MaxValue
Origin == <<0, 0, 0>>

NoCells == [c \in {} |-> EmptyDict]
NoWritten == [k \in {} |-> 0]

\* the history of an environment a driver has filled with sets
WrittenOf(cs) == [k \in {kv[1] : kv \in Stored(cs)} |-> cs[SubSeq(k, 1, 3)][k[4]]]

\* the unit tests of the environment: sets and gets in any order
EnvCoords == {<<0, 0, 0>>, <<1, 0, 0>>}
EnvKeys == {c \o <<s>> : c \in EnvCoords, s \in SignalNames}

InitEnv ==
    /\ cells = NoCells
    /\ written = NoWritten
    /\ position = <<>>
    /\ action_range = <<>>
    /\ pheromones = <<>>
    /\ actions = <<>>
    /\ turn = 1
    /\ remaining = 0
    /\ raised = FALSE
    /\ last = NoLast

NextEnv ==
    \/ \E key \in EnvKeys, value \in Values : Set(key, value)
    \/ \E key \in EnvKeys \cup EnvCoords : Get(key)

SpecEnv == InitEnv /\ [][NextEnv]_vars

\* test_get_with_bad_key, test_set_with_bad_key: the keys of the wrong arity,
\* mixed with well-formed sets and gets
BadGetKeys == {<<>>, <<1>>, <<1, 2>>, <<1, 2, 3, 4, 5>>}
BadSetKeys == {<<>>, <<0>>, <<0, 1>>, <<0, 1, 2>>, <<0, 1, 2, 3, 4>>} \cup EnvCoords

NextKeys ==
    \/ \E key \in EnvKeys \cup BadSetKeys, value \in Values : Set(key, value)
    \/ \E key \in EnvKeys \cup EnvCoords \cup BadGetKeys : Get(key)

SpecKeys == InitEnv /\ [][NextKeys]_vars

\* the unit tests of one act: an Ant and an environment filled by sets, then act
\* test_evaporate, test_evaporate_zero_capped: sets of 1 (and of 0), reads, and
\* evaporate() or evaporate(value=2) in any order
EvapValues == {0, Unit}
EvapDecays == {DefaultDecay, 2 * Unit}

NextEvap ==
    \/ \E key \in EnvKeys, value \in EvapValues : Set(key, value)
    \/ \E key \in EnvKeys \cup EnvCoords : Get(key)
    \/ \E value \in EvapDecays : Evaporate(value, DefaultFloor)

SpecEvap == InitEnv /\ [][NextEvap]_vars

\* test_export and the export of main.py: sets of 1 and of 0, reads, and exports
\* without a filter or with the filter of a signal name
ExportFilters == {None} \cup {Present(s) : s \in SignalNames}

NextExport ==
    \/ \E key \in EnvKeys, value \in EvapValues : Set(key, value)
    \/ \E key \in EnvKeys \cup EnvCoords : Get(key)
    \/ \E pheromone \in ExportFilters : Export(pheromone)

SpecExport == InitEnv /\ [][NextExport]_vars

ActStarts == {<<0, 0, 0>>, <<1, 2, 1>>, <<-1, 2, 0>>}
ActCells == {<<1, 0, 0>>, <<1, 1, 0>>, <<0, 1, 0>>}
AntConfigs == {<<1, <<>>>>, <<2, <<>>>>, <<1, <<"move">>>>, <<1, <<"build">>>>}
DrawnDicts == UNION {[S -> Values] : S \in SUBSET SignalNames}
DrawnEnvs ==
    {NoCells} \cup
    {[c \in {c1, c2} |-> IF c = c1 THEN d1 ELSE d2] :
        c1 \in ActCells, c2 \in ActCells, d1 \in DrawnDicts, d2 \in DrawnDicts}

InitAct ==
    /\ \E start \in ActStarts, config \in AntConfigs, env \in DrawnEnvs :
         /\ position = <<start>>
         /\ action_range = <<config[1]>>
         /\ pheromones = <<AntPheromones(config[2])>>
         /\ cells = env
         /\ written = WrittenOf(env)
    /\ actions = << <<>> >>
    /\ turn = 1
    /\ remaining = 1
    /\ raised = FALSE
    /\ last = NoLast

NextAct == \E a \in DOMAIN position : Act(a)

SpecAct == InitAct /\ [][NextAct]_vars

\* the tests of the selection: a mapping of candidates to scores, then the call
SelectPositions == {<<1, 0, 0>>, <<0, 1, 0>>, <<0, 0, 1>>}
Scores == 0..MaxScore
SelectInputs ==
    UNION {[P -> [SignalNames -> Scores]] : P \in SUBSET SelectPositions \ {{}}}

InitSelect ==
    /\ cells = NoCells
    /\ written = NoWritten
    /\ position = <<Origin>>
    /\ action_range = <<1>>
    /\ pheromones = <<AntPheromones(<<>>)>>
    /\ actions = << <<>> >>
    /\ turn = 1
    /\ remaining = 0
    /\ raised = FALSE
    /\ \E given \in SelectInputs : last = [NoLast EXCEPT !.given = given]

NextSelect == \E given \in {last.given} : Select(given)

SpecSelect == InitSelect /\ [][NextSelect]_vars

\* test_ant_no_build_on_zero_phero: one Ant at the origin of an empty environment
InitEmpty ==
    /\ cells = NoCells
    /\ written = NoWritten
    /\ position = <<Origin>>
    /\ action_range = <<1>>
    /\ pheromones = <<AntPheromones(<<>>)>>
    /\ actions = << <<>> >>
    /\ turn = 1
    /\ remaining = MaxActs
    /\ raised = FALSE
    /\ last = NoLast

NextEmpty == \E a \in DOMAIN position : Act(a)

SpecEmpty == InitEmpty /\ [][NextEmpty]_vars

\* test_ant_build_and_move: one Ant at the origin, (1, 0, 0) holds move = build = 1
TestSeed == [c \in {<<1, 0, 0>>} |-> [s \in SignalNames |-> Unit]]

InitSeed ==
    /\ cells = TestSeed
    /\ written = WrittenOf(TestSeed)
    /\ position = <<Origin>>
    /\ action_range = <<1>>
    /\ pheromones = <<AntPheromones(<<>>)>>
    /\ actions = << <<>> >>
    /\ turn = 1
    /\ remaining = MaxActs
    /\ raised = FALSE
    /\ last = NoLast

NextSeed == \E a \in DOMAIN position : Act(a)

SpecSeed == InitSeed /\ [][NextSeed]_vars

\* test_ant_only_interact_with_move_build_pheromones: one act of an Ant that
\* recognizes other signals only, on drawn environments that hold them
OtherNames == {"unknown-phero", "food"}
OtherConfigs == {<<"unknown-phero">>, <<"food", "unknown-phero">>}
OtherStarts == {<<0, 0, 0>>, <<1, 2, 1>>}
OtherCells == {<<1, 1, 1>>, <<1, 0, 0>>, <<1, 3, 1>>}
OtherDicts ==
    {[s \in {"unknown-phero"} |-> Unit],
     [s \in {"unknown-phero", "move"} |-> IF s = "move" THEN Unit ELSE 0],
     [s \in OtherNames \cup SignalNames |-> Unit]}
OtherEnvs == UNION {[S -> OtherDicts] : S \in SUBSET OtherCells}

InitOther ==
    /\ \E start \in OtherStarts, config \in OtherConfigs, env \in OtherEnvs :
         /\ position = <<start>>
         /\ pheromones = <<AntPheromones(config)>>
         /\ cells = env
         /\ written = WrittenOf(env)
    /\ action_range = <<1>>
    /\ actions = << <<>> >>
    /\ turn = 1
    /\ remaining = 1
    /\ raised = FALSE
    /\ last = NoLast

NextOther == \E a \in DOMAIN position : Act(a)

SpecOther == InitOther /\ [][NextOther]_vars

\* the scoring applied once to drawn positions, signal lists and environments
FunCoords == {<<0, 0, 0>>, <<0, 1, 0>>, <<1, 0, 0>>}
FunDicts == [SignalNames -> Values] \cup {[s \in {"move"} |-> MaxValue]}
FunEnvs == UNION {[S -> FunDicts] : S \in SUBSET FunCoords}
ScorePositions == {<<0, 0, 0>>, <<0, 1, 0>>}
ScorePheros ==
    {<<>>, <<"move">>, <<"move", "build">>, <<"build", "unknown-phero">>, <<"move", "move">>}

InitFun ==
    /\ \E env \in FunEnvs :
         /\ cells = env
         /\ written = WrittenOf(env)
    /\ position = <<>>
    /\ action_range = <<>>
    /\ pheromones = <<>>
    /\ actions = <<>>
    /\ turn = 1
    /\ remaining = 0
    /\ raised = FALSE
    /\ last = NoLast

NextFun == \E pos \in ScorePositions, pheros \in ScorePheros : Score(pos, pheros)

SpecFun == InitFun /\ [][NextFun]_vars

\* PositionTest: the two neighbourhood functions applied once to drawn
\* positions and radii
Centres == (-1..2) \X (-1..2) \X (0..2)
Ranges == 1..MaxRange

NextGeo ==
    \/ \E pos \in Centres, increment \in Ranges : Adjacent(pos, increment)
    \/ \E pos \in Centres : Neighbors(pos)

SpecGeo == InitEnv /\ [][NextGeo]_vars

\* acts of an Ant next to the seed and evaporate calls, default or value=2,
\* in any order
InitDecay ==
    /\ cells = TestSeed
    /\ written = WrittenOf(TestSeed)
    /\ position = <<Origin>>
    /\ action_range = <<1>>
    /\ pheromones = <<AntPheromones(<<>>)>>
    /\ actions = << <<>> >>
    /\ turn = 1
    /\ remaining = MaxDecayActs
    /\ raised = FALSE
    /\ last = NoLast

NextDecay ==
    \/ \E a \in DOMAIN position : Act(a)
    \/ \E value \in EvapDecays : Evaporate(value, DefaultFloor)

SpecDecay == InitDecay /\ [][NextDecay]_vars

\* main.py: the seeded column, the ants at the origin, every ant acts in each tick
SeedCells == {<<1, i, 0>> : i \in 0..(SeedHeight - 1)}
SeededCells == [c \in SeedCells |-> [s \in SignalNames |-> Unit]]
MainAnts == <<Origin, Origin>>
\* for i in range(75)
Ticks == 75
\* the acts main.py's loop has made so far
ActsMade ==
    (Ticks - remaining) * Len(position) + (IF turn = 0 THEN Len(position) ELSE turn - 1)

\* for ant in ants: the next ant, and turn 0 once every ant has acted
MainTurn(a) ==
    /\ turn' = IF a = Len(position) THEN 0 ELSE a + 1
    /\ UNCHANGED remaining

\* ant.act(env) in the loop of main.py
MainAct(a) == ActThen(a, MainTurn(a))

\* env.evaporate() at the end of an iteration of main.py
EndTick ==
    /\ turn = 0
    /\ EvaporateEnv(DefaultDecay, DefaultFloor)
    /\ turn' = 1
    /\ remaining' = remaining - 1
    /\ UNCHANGED <<position, action_range, pheromones, actions>>

Init ==
    /\ cells = SeededCells
    /\ written = WrittenOf(SeededCells)
    /\ position = MainAnts
    /\ action_range = [a \in DOMAIN MainAnts |-> 1]
    /\ pheromones = [a \in DOMAIN MainAnts |-> AntPheromones(<<>>)]
    /\ actions = [a \in DOMAIN MainAnts |-> <<>>]
    /\ turn = 1
    /\ remaining = Ticks
    /\ raised = FALSE
    /\ last = NoLast

Next ==
    \/ \E a \in DOMAIN position : ActsMade < MaxActs /\ MainAct(a)
    \/ EndTick

Spec == Init /\ [][Next]_vars

----------------------------------------------------------------------------
(* Properties of the environment (SpecEnv).                                *)

\* the operations of an Ant's act that select a winner
ChoiceOps == {"move", "build", "nothing"}
\* every way an act can end
ActOps == ChoiceOps \cup {"fallback", "error"}

Coord(key) == SubSeq(key, 1, 3)
AllNames == SignalNames \cup {"unknown-phero"}
KnownCoords == EnvCoords \cup DOMAIN cells \cup {Coord(k) : k \in DOMAIN written}

\* C9: after any sequence of sets, the single-signal read of a (coordinate,
\* signal) pair returns the value of the last set to that pair, and the
\* whole-cell read of a written coordinate returns exactly the mapping of the
\* signals ever set there to their last values (so a set changes no other pair).
C9_ReadsReturnTheLastSet ==
    /\ \A k \in DOMAIN written : getitem_result(cells, k) = Present(written[k])
    /\ \A c \in KnownCoords :
         LET names == {k[4] : k \in {j \in DOMAIN written : Coord(j) = c}}
         IN names # {} =>
              getitem_result(cells, c) = Present([s \in names |-> written[c \o <<s>>]])

\* C9 witness: a set has just stored a value next to another signal of the
\* same coordinate that holds a different value
C9_Witness ==
    /\ last.op = "set"
    /\ \E k \in DOMAIN written :
         /\ k # last.key
         /\ Coord(k) = Coord(last.key)
         /\ written[k] # last.value

\* C10: a coordinate no set was ever applied to reads as absent, whole-cell and
\* per signal, also after it has been read; a signal never set at a written
\* coordinate reads as absent.
C10_NeverWrittenReadsAbsent ==
    \A c \in KnownCoords :
      /\ \A s \in AllNames :
           (c \o <<s>>) \notin DOMAIN written => getitem_result(cells, c \o <<s>>) = None
      /\ (\A k \in DOMAIN written : Coord(k) # c) => getitem_result(cells, c) = None

\* C10 witness: a read of a never-set signal of a written coordinate has just
\* returned None, and another coordinate was read before and never written
C10_Witness ==
    /\ last.op = "get"
    /\ Len(last.key) = 4
    /\ last.result = None
    /\ \E k \in DOMAIN written : Coord(k) = Coord(last.key)
    /\ \E c \in DOMAIN cells : \A k \in DOMAIN written : Coord(k) # c

\* C11: a read whose key has neither 3 nor 4 components and a set whose key has
\* not exactly 4 components raise TypeError, which is not the absent result,
\* and leave the cells and every stored value as they were.
C11_BadKeysRaiseAndChangeNothing ==
    [][(\/ last'.op = "get" /\ Len(last'.key) \notin {3, 4}
        \/ last'.op = "set" /\ Len(last'.key) # 4)
       => /\ last'.result = Raise("TypeError")
          /\ last'.result # None
          /\ cells' = cells
          /\ Stored(cells') = Stored(cells)
          /\ written' = written]_vars

\* C11 witness: a set with a 3-component key has just raised on an environment
\* that stores a value, and has not even created the cell of its coordinate
C11_Witness ==
    /\ last.op = "set"
    /\ Len(last.key) = 3
    /\ last.result = Raise("TypeError")
    /\ Stored(cells) # {}
    /\ last.key \notin DOMAIN cells

\* C12: evaporate() replaces every stored value v by 0.95 * v, evaporate(value=2)
\* turns a stored 1 into 0, and no evaporate of non-negative values leaves a
\* value below the floor 0; every value that was stored stays stored.
C12_EvaporateDecaysEveryValue ==
    [][last'.op = "evaporate" =>
         /\ DOMAIN cells' = DOMAIN cells
         /\ \A c \in DOMAIN cells : DOMAIN cells'[c] = DOMAIN cells[c]
         /\ \A k \in DOMAIN written :
              \A before \in {getitem_result(cells, k)} :
              \A after \in {getitem_result(cells', k)} :
                /\ before # None
                /\ after # None
                /\ last'.value = DefaultDecay => 20 * after.value = 19 * before.value
                /\ last'.value = 2 * Unit /\ before.value = Unit => after.value = 0
                /\ before.value >= 0 => after.value >= DefaultFloor]_vars

\* C12 witness: evaporate() has just run, a cell holds 0.95 for one signal and
\* 0.95 * 0.95 for another, and another cell holds a 0
C12_Witness ==
    /\ last.op = "evaporate"
    /\ last.value = DefaultDecay
    /\ \E c \in DOMAIN cells :
         /\ getitem_result(cells, c \o <<"move">>) = Present(19 * (Unit \div 20))
         /\ getitem_result(cells, c \o <<"build">>) = Present(19 * 19 * (Unit \div 400))
    /\ \E k \in DOMAIN written : getitem_result(cells, k) = Present(0)

\* the number of lines of `lines` equal to `row`
Count(lines, row) == Cardinality({i \in DOMAIN lines : lines[i] = row})

\* C19: an export without a filter writes exactly one row "x,y,z" for each
\* coordinate whose whole-cell read is not absent and no other row, so none for
\* a coordinate that was only read; with the filter of a signal it writes exactly
\* one row for each coordinate where that signal reads as present, 0 included.
C19_ExportWritesTheOccupiedCoordinates ==
    last.op = "export" =>
      LET lines == last.result.value
          wanted == {c \in KnownCoords :
                       IF last.given = None
                       THEN getitem_result(cells, c) # None
                       ELSE getitem_result(cells, c \o <<last.given.value>>) # None}
      IN /\ \A c \in wanted : Count(lines, Row(c)) = 1
         /\ \A c \in KnownCoords \ wanted : Count(lines, Row(c)) = 0
         /\ Len(lines) = Cardinality(wanted)
         /\ Row(<<0, 0, 0>>) = "0,0,0" /\ Row(<<1, 0, 0>>) = "1,0,0"

\* C19 witness: an export filtered on "build" has just written the one row of
\* a coordinate that holds build = 0, and none for a coordinate that holds
\* only "move" nor for one that was only read
C19_Witness ==
    /\ last.op = "export"
    /\ last.given = Present("build")
    /\ last.result.value = <<"1,0,0">>
    /\ getitem_result(cells, <<1, 0, 0, "build">>) = Present(0)
    /\ getitem_result(cells, <<0, 0, 0>>) = None
    /\ <<0, 0, 0>> \in DOMAIN cells

----------------------------------------------------------------------------
(* Properties of the selection (SpecSelect).                               *)

MaxOfGiven(given) == Max({given[p][k] : p \in DOMAIN given, k \in SignalNames})
MaximalPairs(given) ==
    {pk \in (DOMAIN given) \X SignalNames : given[pk[1]][pk[2]] = MaxOfGiven(given)}

\* C4: for a non-empty mapping the selection returns (candidate, signal, value)
\* with value the maximum over all candidates and signals and the candidate's
\* score for the signal equal to it, and the possible results are exactly the
\* (candidate, signal) pairs that attain the maximum.
C4_SelectionIsTheMaximalPairs ==
    DOMAIN last.given # {} =>
      /\ {<<w[1], w[2]>> : w \in get_most_attractive_position(last.given)}
            = MaximalPairs(last.given)
      /\ \A w \in get_most_attractive_position(last.given) : w[3] = MaxOfGiven(last.given)
      /\ last.op = "select" =>
            /\ last.choice[3] = MaxOfGiven(last.given)
            /\ last.given[last.choice[1]][last.choice[2]] = last.choice[3]

\* C4 witness: the selection has returned from a mapping in which two
\* candidates tie for the maximum, one of them on one signal only, and a third
\* candidate is below it
C4_Witness ==
    /\ last.op = "select"
    /\ Cardinality({pk[1] : pk \in MaximalPairs(last.given)}) = 2
    /\ Cardinality(MaximalPairs(last.given)) = 3
    /\ Cardinality(DOMAIN last.given) = 3

----------------------------------------------------------------------------
(* Properties of one act (SpecAct).                                        *)

\* the six coordinates one step away along one axis
SixAround(c) ==
    {<<c[1] + d, c[2], c[3]>> : d \in {-1, 1}} \cup
    {<<c[1], c[2] + d, c[3]>> : d \in {-1, 1}} \cup
    {<<c[1], c[2], c[3] + d>> : d \in {-1, 1}}

\* the candidates: within `r` of `pos` on every axis, not `pos`, not below ground
Candidates(pos, r) ==
    {c \in ((pos[1] - r)..(pos[1] + r)) \X ((pos[2] - r)..(pos[2] + r))
             \X ((pos[3] - r)..(pos[3] + r)) : c # pos /\ c[2] >= 0}

Abs(n) == IF n < 0 THEN -n ELSE n

\* the legality rule on the candidates: not occupied, and on the ground or one
\* step along one axis from an occupied coordinate
LegalRule(pos, r, cs) ==
    LET occupied == {c \in DOMAIN cs : getitem_result(cs, c) # None}
    IN {c \in Candidates(pos, r) :
          /\ c \notin occupied
          /\ \/ c[2] = 0
             \/ \E n \in occupied :
                   Abs(n[1] - c[1]) + Abs(n[2] - c[2]) + Abs(n[3] - c[3]) = 1}

WithinRange(c, pos, r) ==
    /\ Abs(c[1] - pos[1]) <= r
    /\ Abs(c[2] - pos[2]) <= r
    /\ Abs(c[3] - pos[3]) <= r

\* C1: the set of positions the Ant's filter produces from adjacent_positions
\* is exactly the set of candidates that are unoccupied and either on the
\* ground or next to an occupied direct neighbour.
C1_FilterIsTheLegalityRule ==
    [][last'.op \in ActOps =>
         last'.possible = LegalRule(position[last'.ant], action_range[last'.ant], cells)]_vars

\* C1 witness: an act that changed nothing had a legal candidate above the
\* ground, an occupied position in reach and an unoccupied position in reach
\* that is neither on the ground nor attached
C1_Witness ==
    /\ last.op = "nothing"
    /\ \E c \in last.possible : c[2] > 0
    /\ \E c \in Candidates(position[1], action_range[1]) :
         getitem_result(cells, c) # None
    /\ \E c \in Candidates(position[1], action_range[1]) :
         c[2] > 0 /\ getitem_result(cells, c) = None /\ c \notin last.possible

\* C2: in an act won by "build", a nonzero score stores 1 for every signal of
\* the Ant at the winning candidate (which becomes occupied), appends exactly
\* one "build" to the log and leaves the position; a zero score leaves the
\* environment, the position and the log unchanged.
C2_BuildDepositsOrDoesNothing ==
    [][(last'.op \in ChoiceOps /\ last'.choice[2] = "build") =>
         LET a == last'.ant
             c == last'.choice[1]
         IN IF last'.choice[3] # 0
            THEN /\ \A s \in SeqToSet(pheromones[a]) :
                      getitem_result(cells', c \o <<s>>) = Present(Unit)
                 /\ getitem_result(cells', c) # None
                 /\ actions' = [actions EXCEPT ![a] = Append(@, "build")]
                 /\ position' = position
            ELSE /\ Stored(cells') = Stored(cells)
                 /\ position' = position
                 /\ actions' = actions]_vars

\* C2 witness: an Ant has built at a candidate whose score was nonzero
C2_Witness ==
    /\ last.op = "build"
    /\ last.choice[3] # 0
    /\ actions[last.ant] = <<"build">>
    /\ getitem_result(cells, last.choice[1]) # None

\* C3: in an act won by "move", whatever the score, the position becomes the
\* winning candidate, a legal one (unoccupied, within the range of the old
\* position and different from it), exactly one "move" is appended to the log
\* and no cell of the environment changes.
C3_MoveGoesToTheWinner ==
    [][(last'.op \in ChoiceOps /\ last'.choice[2] = "move") =>
         LET a == last'.ant
             c == last'.choice[1]
         IN /\ position' = [position EXCEPT ![a] = c]
            /\ getitem_result(cells, c) = None
            /\ WithinRange(c, position[a], action_range[a])
            /\ c # position[a]
            /\ c \in LegalRule(position[a], action_range[a], cells)
            /\ actions' = [actions EXCEPT ![a] = Append(@, "move")]
            /\ Stored(cells') = Stored(cells)]_vars

\* C3 witness: an Ant has moved to a winner whose score was zero, in an
\* environment that stores something
C3_Witness ==
    /\ last.op = "move"
    /\ last.choice[3] = 0
    /\ position[last.ant] = last.choice[1]
    /\ Stored(cells) # {}

\* C5: an act of an Ant that has no legal candidate completes without an
\* error, leaves the Ant on the ground (y = 0), appends nothing to the log and
\* changes no cell of the environment, for any x and z of its position.
C5_NoCandidateActCompletes ==
    [][(last'.op \in ActOps /\ last'.possible = {}) =>
         /\ ~raised'
         /\ position'[last'.ant][2] = 0
         /\ actions' = actions
         /\ Stored(cells') = Stored(cells)]_vars

\* C18 as claimed: every act changes each coordinate of the Ant's position by
\* at most its action range.
C18_EveryActStaysWithinRange ==
    [][last'.op \in ActOps =>
         \A i \in 1..3 :
           Abs(position'[last'.ant][i] - position[last'.ant][i]) <= action_range[last'.ant]]_vars

\* C18: an act that finds a legal candidate changes each coordinate of the
\* position by at most the action range; an act that finds none puts the Ant
\* on the ground at (x', 0, z') with x' in 0..x and z' in 0..z, however far
\* that is, or raises and leaves the position as it was.
C18_ActsWithACandidateStayWithinRange ==
    [][last'.op \in ActOps =>
         \A a \in {last'.ant} :
           /\ last'.possible # {} =>
                \A i \in 1..3 : Abs(position'[a][i] - position[a][i]) <= action_range[a]
           /\ last'.possible = {} => last'.op \in {"fallback", "error"}
           /\ last'.op = "fallback" =>
                /\ position'[a][1] \in 0..position[a][1]
                /\ position'[a][2] = 0
                /\ position'[a][3] \in 0..position[a][3]
           /\ last'.op = "error" => position' = position]_vars

\* C18 witness: an Ant of range 2 has just moved 2 units along the x axis
C18_Witness ==
    /\ last.op = "move"
    /\ action_range = <<2>>
    /\ position = <<last.choice[1]>>
    /\ position[1] = <<2, 0, 0>>
    /\ <<1, 0, 0>> \in DOMAIN cells

\* C21: nothing goes below the ground: an act leaves an Ant that was at
\* y >= 0 at y >= 0, whether it moves, falls back, fails or stays; the signals
\* stored after the act at a coordinate with y < 0 are those stored before it,
\* and a cell below the ground that the act's reads created holds no signal.
C21_NothingGoesBelowTheGround ==
    [][last'.op \in ActOps =>
         /\ \A a \in DOMAIN position : position[a][2] >= 0 => position'[a][2] >= 0
         /\ \A kv \in Stored(cells') : kv[1][2] < 0 => kv \in Stored(cells)
         /\ \A k \in DOMAIN written' :
              k[2] < 0 => k \in DOMAIN written /\ written'[k] = written[k]
         /\ \A c \in DOMAIN cells' \ DOMAIN cells : c[2] < 0 => cells'[c] = EmptyDict]_vars

\* C21 witness: an Ant on the ground has just moved or built on the ground, and
\* the reads of its act created a cell below the ground
C21_Witness ==
    /\ last.op \in {"move", "build"}
    /\ last.choice[1][2] = 0
    /\ position[1][2] = 0
    /\ \E c \in DOMAIN cells : c[2] < 0 /\ cells[c] = EmptyDict

----------------------------------------------------------------------------
(* Properties of the runs (SpecEmpty, SpecSeed, Spec).                     *)

Log(a) == SeqToSet(actions[a])

\* positions_pheromone of the act ant `a` would make in the current state
Scored(a) ==
    PositionsPheromone(
        filter_adjacent_positions(adjacent_positions(position[a], action_range[a]),
                                  cells, position[a]),
        cells, pheromones[a])

\* C6: from an environment no cell of which was ever written, after any number
\* of acts of an Ant with the default signals the log holds no "build" and
\* every whole-cell read is absent.
C6_EmptyEnvironmentStaysEmpty ==
    /\ \A a \in DOMAIN actions : "build" \notin Log(a)
    /\ \A c \in DOMAIN cells : getitem_result(cells, c) = None
    /\ Stored(cells) = {}

\* C6 witness: the last of the acts selected "build" with a zero score, after
\* the Ant had moved
C6_Witness ==
    /\ remaining = 0
    /\ last.op = "nothing"
    /\ last.choice[2] = "build"
    /\ last.choice[3] = 0
    /\ "move" \in Log(1)

C8_BuildsGoToAbsentCells ==
    [][last'.op \in ActOps =>
         LET a == last'.ant
         IN /\ last'.possible = LegalRule(position[a], action_range[a], cells)
            /\ last'.op \in ChoiceOps =>
                 last'.choice[3] =
                   pheromone_attractiveness(last'.choice[1], cells, pheromones[a])[last'.choice[2]]
            /\ last'.op = "build" =>
                 /\ getitem_result(cells, last'.choice[1]) = None
                 /\ \A k \in DOMAIN written : Coord(k) # last'.choice[1]
                 /\ \A c \in DOMAIN cells : \A s \in DOMAIN cells[c] :
                       /\ c \in DOMAIN cells'
                       /\ s \in DOMAIN cells'[c]
                       /\ cells'[c][s] = cells[c][s]]_vars

\* C8 witness: in the first tick the first Ant built and the second Ant has
\* just built at a coordinate attached to that build and to no seeded cell
C8_Witness ==
    /\ last.op = "build"
    /\ last.ant = 2
    /\ turn = 0
    /\ remaining = Ticks
    /\ actions[1] = <<"build">>
    /\ actions[2] = <<"build">>
    /\ \A n \in SixAround(last.choice[1]) : n \notin SeedCells

\* C20: in the run of main.py every build deposits at a coordinate that is on
\* the ground or had, when the Ant built, a direct neighbour whose whole-cell
\* read was not absent; so every occupied coordinate is on the ground or next to
\* an occupied one.
C20_NoFloatingStructure ==
    [][(last'.op = "build" =>
          \A c \in {last'.choice[1]} :
            /\ getitem_result(cells', c) # None
            /\ \/ c[2] = 0
               \/ \E n \in SixAround(c) : getitem_result(cells, n) # None)
       /\ \A c \in DOMAIN cells' :
            getitem_result(cells', c) # None =>
              \/ c[2] = 0
              \/ \E n \in SixAround(c) : getitem_result(cells', n) # None]_vars

\* C20 witness: an Ant has just built above the ground, on top of the seed
C20_Witness ==
    /\ last.op = "build"
    /\ last.choice[1][2] > 0
    /\ getitem_result(cells, last.choice[1]) # None
    /\ \E c \in SeedCells : c \in SixAround(last.choice[1])

\* C22: in the run of main.py, where every Ant starts at the unoccupied origin,
\* the whole-cell read of every Ant's position is absent in every state.
C22_NoAntStandsInTheStructure ==
    \A a \in DOMAIN position : getitem_result(cells, position[a]) = None

----------------------------------------------------------------------------
(* Properties of acts and evaporation (SpecDecay).                         *)

AtFloor(cs) == \A c \in DOMAIN cs : \A s \in DOMAIN cs[c] : cs[c][s] = DefaultFloor

\* C13: a signal that was written at a coordinate stays stored there through
\* every act and every evaporate, also once its value is 0: its read and the
\* whole-cell read of the coordinate are not absent and no act takes the
\* coordinate as a candidate; an evaporate of an environment whose values are
\* all at the floor changes nothing.
C13_OccupancyIsNeverLost ==
    [][(\A k \in DOMAIN written :
          /\ getitem_result(cells', k) # None
          /\ getitem_result(cells', Coord(k)) # None
          /\ (last'.op \in ActOps => Coord(k) \notin last'.possible))
       /\ (last'.op = "evaporate" /\ AtFloor(cells) => cells' = cells)]_vars

\* C13 witness: the Ant has built, every stored value has then decayed to 0,
\* and the Ant has just acted again with a winner
C13_Witness ==
    /\ last.op \in ChoiceOps
    /\ "build" \in Log(1)
    /\ Stored(cells) # {}
    /\ AtFloor(cells)
    /\ Cardinality({Coord(k) : k \in DOMAIN written}) > 1

----------------------------------------------------------------------------
(* Properties of the module-level functions (SpecFun, SpecGeo).            *)

\* the value stored for signal `s` at `c`, 0 when there is none
StoredOrZero(cs, c, s) ==
    IF c \in DOMAIN cs /\ s \in DOMAIN cs[c] THEN cs[c][s] ELSE 0

\* C14: the attractiveness of a coordinate has exactly one entry per listed
\* signal, and the entry is the sum of that signal's stored values over the six
\* coordinates one step away along one axis, an absent value counting as 0;
\* what is stored at the coordinate itself or anywhere else adds nothing.
C14_AttractivenessSumsTheSixNeighbors ==
    last.op = "score" =>
      LET c == last.key
          scores == last.result.value
      IN /\ DOMAIN scores = SeqToSet(last.given)
         /\ \A s \in SeqToSet(last.given) :
              scores[s] = StoredOrZero(cells, <<c[1] + 1, c[2], c[3]>>, s)
                        + StoredOrZero(cells, <<c[1] - 1, c[2], c[3]>>, s)
                        + StoredOrZero(cells, <<c[1], c[2] + 1, c[3]>>, s)
                        + StoredOrZero(cells, <<c[1], c[2] - 1, c[3]>>, s)
                        + StoredOrZero(cells, <<c[1], c[2], c[3] + 1>>, s)
                        + StoredOrZero(cells, <<c[1], c[2], c[3] - 1>>, s)

\* C14 witness: the score of "move" at the origin adds the values of two
\* neighbours while the origin itself holds a value, and "build" scores less
C14_Witness ==
    /\ last.op = "score"
    /\ last.key = <<0, 0, 0>>
    /\ last.given = <<"move", "build">>
    /\ StoredOrZero(cells, <<0, 0, 0>>, "move") = MaxValue
    /\ last.result.value["move"] = 2 * MaxValue
    /\ last.result.value["build"] < MaxValue

\* C15: adjacent_positions(c, r) yields, once each, exactly the coordinates
\* within r of c on every axis that are not c and have y >= 0; there are
\* (2r+1)^3 - 1 of them when c.y >= r (26 for r = 1 at (0,1,0), 124 for r = 2
\* at (2,2,2)).
C15_AdjacentIsTheCubeAboveGround ==
    last.op = "adjacent" =>
      LET c == last.key
          r == last.value
          yielded == last.result.value
          n == 2 * r + 1
      IN /\ \A i \in DOMAIN yielded :
              /\ Abs(yielded[i][1] - c[1]) <= r
              /\ Abs(yielded[i][2] - c[2]) <= r
              /\ Abs(yielded[i][3] - c[3]) <= r
              /\ yielded[i] # c
              /\ yielded[i][2] >= 0
         /\ \A p \in Candidates(c, r) : \E i \in DOMAIN yielded : yielded[i] = p
         /\ Cardinality({yielded[i] : i \in DOMAIN yielded}) = Len(yielded)
         /\ c[2] >= r => Len(yielded) = n * n * n - 1
         /\ c = <<0, 1, 0>> /\ r = 1 => Len(yielded) = 26
         /\ c = <<2, 2, 2>> /\ r = 2 => Len(yielded) = 124

\* C15 witness: radius 2 around (0, 1, 0), where the ground cuts one of the
\* five layers: 4 * 25 - 1 positions
C15_Witness ==
    /\ last.op = "adjacent"
    /\ last.key = <<0, 1, 0>>
    /\ last.value = 2
    /\ Len(last.result.value) = 99

\* C16: direct_neighbors(c) returns 6 pairwise distinct coordinates, each one
\* step of +1 or -1 away from c along exactly one axis and none equal to c;
\* the ground is not applied, so (x, y - 1, z) is always one of them.
C16_DirectNeighborsAreTheSixSteps ==
    last.op = "neighbors" =>
      LET c == last.key
          returned == last.result.value
      IN /\ Len(returned) = 6
         /\ Cardinality({returned[i] : i \in DOMAIN returned}) = 6
         /\ \A i \in DOMAIN returned :
              /\ returned[i] # c
              /\ Abs(returned[i][1] - c[1]) + Abs(returned[i][2] - c[2])
                   + Abs(returned[i][3] - c[3]) = 1
         /\ \E i \in DOMAIN returned : returned[i] = <<c[1], c[2] - 1, c[3]>>

\* C16 witness: the neighbours of a coordinate on the ground, one of which is
\* below it
C16_Witness ==
    /\ last.op = "neighbors"
    /\ last.key[2] = 0
    /\ \E i \in DOMAIN last.result.value : last.result.value[i][2] = -1

----------------------------------------------------------------------------
(* Properties of an Ant with other signals (SpecOther).                    *)

\* C17: an act of an Ant that recognizes neither "move" nor "build", with at
\* least one legal candidate, does nothing: the position, the log, every stored
\* value and every whole-cell read are as before, whatever the scores.
C17_OtherSignalsDoNothing ==
    [][(/\ last'.op \in ActOps
        /\ SeqToSet(pheromones[last'.ant]) \cap SignalNames = {}
        /\ last'.possible # {})
       => /\ last'.op = "nothing"
          /\ position' = position
          /\ actions' = actions
          /\ written' = written
          /\ Stored(cells') = Stored(cells)
          /\ \A c \in DOMAIN cells' : getitem_result(cells', c) = getitem_result(cells, c)]_vars

\* C17 witness: the act has just selected, for a recognized signal, a candidate
\* with a nonzero score, and nothing was done
C17_Witness ==
    /\ last.op = "nothing"
    /\ last.choice[2] = "unknown-phero"
    /\ last.choice[3] > 0
    /\ position = <<Origin>>
    /\ actions = << <<>> >>

====
